---- MODULE Spec2Model ----
(***************************************************************************)
(* The storage layer of rip3 (py/DB.py): class DB over one sqlite file     *)
(* shared by independent OS processes, each with its own connection.       *)
(*                                                                         *)
(* The program's state is the committed content of the file (disk), and    *)
(* for every process its connection: the file lock it holds, the           *)
(* transaction flag of the sqlite3 module, its uncommitted image of the    *)
(* file, the select cursors it still holds, and the position of the call   *)
(* it is in.  The sqlite engine is the environment of DB.py; its file      *)
(* locking (SHARED / RESERVED / PENDING / EXCLUSIVE) is modelled at the     *)
(* statements of DB.py that call into it.                                  *)
(*                                                                         *)
(* Texts (config keys and values, cell values) are sequences of            *)
(* one-character strings, so that building a statement from a text and     *)
(* reading it back are computed, character by character.                   *)
(***************************************************************************)
EXTENDS Integers, Sequences, FiniteSets, TLC

(***************************************************************************)
(* Bounds of the model.                                                    *)
(***************************************************************************)
MaxRows == 2        \* rows a table holds at most (inserts stop there)
MaxCursors == 1     \* select cursors a process holds open at most
MaxFaults == 1      \* commit failures that are not lock contention
MaxAttempts == 2    \* failed attempts of one commit() call that are counted

Procs == {"p1", "p2"}

(***************************************************************************)
(* Texts.                                                                  *)
(***************************************************************************)
QUOTE == "\""
NoText == <<>>
NULL == <<"NULL">>          \* the SQL null (Python None) as a cell value

\* SCHEMA['config']: the columns of the config table, in declared order.
ConfigColumns == << <<"k", "e", "y">>, <<"v", "a", "l", "u", "e">> >>

\* SCHEMA['sites']: host text primary key, available integer, message text.
SitesColumns == << <<"h", "o", "s", "t">>,
                   <<"a", "v", "a", "i", "l", "a", "b", "l", "e">>,
                   <<"m", "e", "s", "s", "a", "g", "e">> >>
SitesKeyColumn == 1

\* The declared types of the columns of sites.
SitesTypes == <<"text", "integer", "text">>

\* A Python int among the values: the mark, then its decimal digits; a text
\* value is its characters.
IntMark == "#"
PyInt(digits) == <<IntMark>> \o digits
IsInt(v) == v # <<>> /\ v[1] = IntMark

Digits == {"0", "1", "2", "3", "4", "5", "6", "7", "8", "9"}

\* A text that reads as a decimal integer in its shortest form.
IsNumeral(t) ==
    /\ t # <<>>
    /\ \A i \in 1..Len(t) : t[i] \in Digits
    /\ (Len(t) > 1 => t[1] # "0")

\* A store whose columns all have the text affinity.
AffinityAllText(type, v) == IF IsInt(v) THEN Tail(v) ELSE v

\* The value sqlite stores, and compares with, for a value bound to a column
\* of the declared type: a text column turns an integer into its text, an
\* integer column turns a text that reads as an integer into the integer.
Affinity(type, v) ==
    IF v = NULL THEN v
    ELSE IF type = "text" THEN (IF IsInt(v) THEN Tail(v) ELSE v)
    ELSE IF ~IsInt(v) /\ IsNumeral(v) THEN PyInt(v) ELSE v

\* The row of sites stored for the values of an insert.
StoredRow(vals) == [j \in 1..Len(vals) |-> Affinity(SitesTypes[j], vals[j])]


ReadLocks == {"SHARED", "RESERVED", "PENDING", "EXCLUSIVE"}
WriteLocks == {"RESERVED", "PENDING", "EXCLUSIVE"}

(***************************************************************************)
(* The declared schema: SCHEMA and INDICES as they are written in DB.py.    *)
(***************************************************************************)
Name_albums ==
    <<"a", "l", "b", "u", "m", "s">>

Name_medias ==
    <<"m", "e", "d", "i", "a", "s">>

Name_urls ==
    <<"u", "r", "l", "s">>

Name_metadata ==
    <<"m", "e", "t", "a", "d", "a", "t", "a">>

Name_sites ==
    <<"s", "i", "t", "e", "s">>

Name_config ==
    <<"c", "o", "n", "f", "i", "g">>

\* SCHEMA['albums']
Schema_albums ==
    <<"n", "a", "m", "e", " ", " ", " ", " ", " ", " ", " ", "t", "e", "x",
      "t", " ", "p", "r", "i", "m", "a", "r", "y", " ", "k", "e", "y", ",",
      "u", "r", "l", " ", " ", " ", " ", " ", " ", " ", " ", "t", "e", "x",
      "t", ",", "h", "o", "s", "t", " ", " ", " ", " ", " ", " ", " ", "t",
      "e", "x", "t", ",", "r", "e", "a", "d", "y", " ", " ", " ", " ", " ",
      " ", "i", "n", "t", "e", "g", "e", "r", ",", "p", "e", "n", "d", "i",
      "n", "g", " ", " ", " ", " ", "i", "n", "t", "e", "g", "e", "r", ",",
      "f", "i", "l", "e", "s", "i", "z", "e", " ", " ", " ", "i", "n", "t",
      "e", "g", "e", "r", ",", "p", "a", "t", "h", " ", " ", " ", " ", " ",
      " ", " ", "t", "e", "x", "t", ",", "c", "r", "e", "a", "t", "e", "d",
      " ", " ", " ", " ", "i", "n", "t", "e", "g", "e", "r", ",", "m", "o",
      "d", "i", "f", "i", "e", "d", " ", " ", " ", "i", "n", "t", "e", "g",
      "e", "r", ",", "a", "c", "c", "e", "s", "s", "e", "d", " ", " ", " ",
      "i", "n", "t", "e", "g", "e", "r", ",", "c", "o", "u", "n", "t", " ",
      " ", " ", " ", " ", " ", "i", "n", "t", "e", "g", "e", "r", ",", "z",
      "i", "p", " ", " ", " ", " ", " ", " ", " ", " ", "t", "e", "x", "t",
      ",", "v", "i", "e", "w", "s", " ", " ", " ", " ", " ", " ", "i", "n",
      "t", "e", "g", "e", "r", ",", "m", "e", "t", "a", "d", "a", "t", "a",
      " ", " ", " ", "t", "e", "x", "t">>

\* SCHEMA['medias']
Schema_medias ==
    <<"a", "l", "b", "u", "m", "i", "d", " ", " ", " ", " ", "i", "n", "t",
      "e", "g", "e", "r", ",", "i", "_", "i", "n", "d", "e", "x", " ", " ",
      " ", " ", "i", "n", "t", "e", "g", "e", "r", ",", "u", "r", "l", " ",
      " ", " ", " ", " ", " ", " ", " ", "t", "e", "x", "t", ",", "d", "o",
      "w", "n", "l", "o", "a", "d", "e", "d", " ", "i", "n", "t", "e", "g",
      "e", "r", ",", "s", "a", "v", "e", "a", "s", " ", " ", " ", " ", " ",
      "t", "e", "x", "t", ",", "t", "y", "p", "e", " ", " ", " ", " ", " ",
      " ", " ", "t", "e", "x", "t", ",", "p", "a", "t", "h", " ", " ", " ",
      " ", " ", " ", " ", "t", "e", "x", "t", ",", "w", "i", "d", "t", "h",
      " ", " ", " ", " ", " ", " ", "i", "n", "t", "e", "g", "e", "r", ",",
      "h", "e", "i", "g", "h", "t", " ", " ", " ", " ", " ", "i", "n", "t",
      "e", "g", "e", "r", ",", "f", "i", "l", "e", "s", "i", "z", "e", " ",
      " ", " ", "i", "n", "t", "e", "g", "e", "r", ",", "t", "h", "u", "m",
      "b", " ", " ", " ", " ", " ", " ", "t", "e", "x", "t", ",", "t", "_",
      "w", "i", "d", "t", "h", " ", " ", " ", " ", "i", "n", "t", "e", "g",
      "e", "r", ",", "t", "_", "h", "e", "i", "g", "h", "t", " ", " ", " ",
      "i", "n", "t", "e", "g", "e", "r", ",", "m", "e", "t", "a", "d", "a",
      "t", "a", " ", " ", " ", "t", "e", "x", "t", ",", "f", "o", "r", "e",
      "i", "g", "n", " ", "k", "e", "y", "(", "a", "l", "b", "u", "m", "i",
      "d", ")", " ", "r", "e", "f", "e", "r", "e", "n", "c", "e", "s", " ",
      "a", "l", "b", "u", "m", "s", "(", "r", "o", "w", "i", "d", ")", ",",
      "p", "r", "i", "m", "a", "r", "y", " ", "k", "e", "y", "(", "a", "l",
      "b", "u", "m", "i", "d", ",", " ", "i", "_", "i", "n", "d", "e", "x",
      ")">>

\* SCHEMA['urls']
Schema_urls ==
    <<"a", "l", "b", "u", "m", "i", "d", " ", " ", "i", "n", "t", "e", "g",
      "e", "r", ",", "i", "_", "i", "n", "d", "e", "x", " ", " ", "i", "n",
      "t", "e", "g", "e", "r", ",", "u", "r", "l", " ", " ", " ", " ", " ",
      " ", "t", "e", "x", "t", ",", "s", "a", "v", "e", "a", "s", " ", " ",
      " ", "t", "e", "x", "t", ",", "t", "y", "p", "e", " ", " ", " ", " ",
      " ", "t", "e", "x", "t", ",", "m", "e", "t", "a", "d", "a", "t", "a",
      " ", "t", "e", "x", "t", ",", "a", "d", "d", "e", "d", " ", " ", " ",
      " ", "i", "n", "t", "e", "g", "e", "r">>

\* SCHEMA['metadata']
Schema_metadata ==
    <<"a", "l", "b", "u", "m", "i", "d", " ", "i", "n", "t", "e", "g", "e",
      "r", ",", "k", "e", "y", " ", " ", " ", " ", " ", "t", "e", "x", "t",
      ",", "v", "a", "l", "u", "e", " ", " ", " ", "t", "e", "x", "t", ",",
      "f", "o", "r", "e", "i", "g", "n", " ", "k", "e", "y", "(", "a", "l",
      "b", "u", "m", "i", "d", ")", " ", "r", "e", "f", "e", "r", "e", "n",
      "c", "e", "s", " ", "a", "l", "b", "u", "m", "s", "(", "r", "o", "w",
      "i", "d", ")", ",", "p", "r", "i", "m", "a", "r", "y", " ", "k", "e",
      "y", "(", "a", "l", "b", "u", "m", "i", "d", ",", " ", "k", "e", "y",
      ")">>

\* SCHEMA['sites']
Schema_sites ==
    <<"h", "o", "s", "t", " ", " ", " ", " ", " ", " ", "t", "e", "x", "t",
      " ", "p", "r", "i", "m", "a", "r", "y", " ", "k", "e", "y", ",", "a",
      "v", "a", "i", "l", "a", "b", "l", "e", " ", "i", "n", "t", "e", "g",
      "e", "r", ",", "m", "e", "s", "s", "a", "g", "e", " ", " ", " ", "t",
      "e", "x", "t">>

\* SCHEMA['config']
Schema_config ==
    <<"k", "e", "y", " ", " ", " ", "t", "e", "x", "t", " ", "p", "r", "i",
      "m", "a", "r", "y", " ", "k", "e", "y", ",", "v", "a", "l", "u", "e",
      " ", "t", "e", "x", "t">>

\* SCHEMA: the table names with their descriptions.
SCHEMA == <<<<Name_albums, Schema_albums>>,
           <<Name_medias, Schema_medias>>,
           <<Name_urls, Schema_urls>>,
           <<Name_metadata, Schema_metadata>>,
           <<Name_sites, Schema_sites>>,
           <<Name_config, Schema_config>>>>

Key_accessed ==
    <<"a", "c", "c", "e", "s", "s", "e", "d">>

Key_albumid ==
    <<"a", "l", "b", "u", "m", "i", "d">>

Key_created ==
    <<"c", "r", "e", "a", "t", "e", "d">>

Key_host ==
    <<"h", "o", "s", "t">>

Key_key ==
    <<"k", "e", "y">>

Key_path ==
    <<"p", "a", "t", "h">>

Key_ready ==
    <<"r", "e", "a", "d", "y">>

Key_status ==
    <<"s", "t", "a", "t", "u", "s">>

Key_url ==
    <<"u", "r", "l">>

Key_views ==
    <<"v", "i", "e", "w", "s">>

\* INDICES as written: ten entries, table name and indexed columns.
IndicesWritten == <<<<Name_albums, Key_ready>>,
                    <<Name_albums, Key_host>>,
                    <<Name_albums, Key_created>>,
                    <<Name_albums, Key_accessed>>,
                    <<Name_albums, Key_views>>,
                    <<Name_medias, Key_albumid>>,
                    <<Name_medias, Key_status>>,
                    <<Name_medias, Key_path>>,
                    <<Name_medias, Key_url>>,
                    <<Name_config, Key_key>>>>

(***************************************************************************)
(* The methods of Python texts that create_table and create_index use.     *)
(***************************************************************************)
Whitespace == {" ", "\n", "\t"}

Has(s, ch) == \E k \in 1..Len(s) : s[k] = ch

\* s.split(ch): the pieces of s between the occurrences of ch, empty pieces
\* included; a text without ch is its only piece.
RECURSIVE Split(_, _)
Split(s, ch) ==
    IF ~Has(s, ch) THEN <<s>>
    ELSE LET at == CHOOSE k \in 1..Len(s) :
                       s[k] = ch /\ \A j \in 1..(k - 1) : s[j] # ch
         IN  <<SubSeq(s, 1, at - 1)>> \o Split(SubSeq(s, at + 1, Len(s)), ch)

\* sep.join(list)
RECURSIVE Join(_, _)
Join(list, sep) ==
    IF Len(list) = 0 THEN <<>>
    ELSE IF Len(list) = 1 THEN list[1]
    ELSE list[1] \o sep \o Join(Tail(list), sep)

\* s.replace(a, b) for single characters.
Replace(s, a, b) == [k \in 1..Len(s) |-> IF s[k] = a THEN b ELSE s[k]]

\* s.strip()
Strip(s) ==
    LET solid == {k \in 1..Len(s) : s[k] \notin Whitespace} IN
    IF solid = {} THEN <<>>
    ELSE SubSeq(s, CHOOSE a \in solid : \A b \in solid : a <= b,
                   CHOOSE a \in solid : \A b \in solid : a >= b)

\* s.rjust(n)
Rjust(s, n) ==
    IF Len(s) >= n THEN s ELSE [k \in 1..(n - Len(s)) |-> " "] \o s

UpperCase == <<"A", "B", "C", "D", "E", "F", "G", "H", "I", "J", "K", "L", "M",
               "N", "O", "P", "Q", "R", "S", "T", "U", "V", "W", "X", "Y", "Z">>
LowerCase == <<"a", "b", "c", "d", "e", "f", "g", "h", "i", "j", "k", "l", "m",
               "n", "o", "p", "q", "r", "s", "t", "u", "v", "w", "x", "y", "z">>

\* s.lower()
Lower(s) ==
    [k \in 1..Len(s) |->
        IF \E u \in 1..Len(UpperCase) : UpperCase[u] = s[k]
        THEN LowerCase[CHOOSE u \in 1..Len(UpperCase) : UpperCase[u] = s[k]]
        ELSE s[k]]

(***************************************************************************)
(* create_table: from the description of a table to the statement.         *)
(***************************************************************************)
Word_primary ==
    <<"p", "r", "i", "m", "a", "r", "y">>
Word_foreign ==
    <<"f", "o", "r", "e", "i", "g", "n">>

\* The first words that make create_table take a fragment for a key.
KeyWords == {Word_primary, Word_foreign}

\* A column fragment as it is written into the statement.
ColumnDef(fields) ==
    Rjust(fields[1], 16) \o <<" ">> \o Strip(Join(Tail(fields), <<" ">>))

\* The for loop over schema.split(','): a fragment whose first field is
\* `primary` or `foreign` starts the keys, and every fragment after it is
\* appended to the keys as well.
RECURSIVE ForRows(_, _, _, _)
ForRows(frags, hit, rs, ks) ==
    IF Len(frags) = 0 THEN [rows |-> rs, keys |-> ks]
    ELSE LET row == Head(frags)
             fields == Split(row, " ")
             hitNow == hit \/ Lower(fields[1]) \in KeyWords
         IN  IF hitNow
             THEN ForRows(Tail(frags), TRUE, rs, Append(ks, row))
             ELSE ForRows(Tail(frags), FALSE, Append(rs, ColumnDef(fields)), ks)

\* The test of the while loop on keys[i] (i counts from 0): an opening
\* parenthesis and no closing one.
Unclosed(key) == Has(key, "(") /\ ~Has(key, ")")

\* A loop that joins the next fragment to keys[i] and leaves it in the list.
RejoinedKeeping(ks, i) ==
    [k \in 1..Len(ks) |-> IF k = i + 1 THEN ks[i + 1] \o <<",">> \o ks[i + 2] ELSE ks[k]]

\* keys[i] = '%s,%s' % (keys[i], keys.pop(i+1))
Rejoined(ks, i) ==
    [k \in 1..(Len(ks) - 1) |->
        IF k < i + 1 THEN ks[k]
        ELSE IF k = i + 1 THEN ks[i + 1] \o <<",">> \o ks[i + 2]
        ELSE ks[k + 1]]

Text_create_table ==
    <<"c", "r", "e", "a", "t", "e", " ", "t", "a", "b", "l", "e", " ", "i",
      "f", " ", "n", "o", "t", " ", "e", "x", "i", "s", "t", "s", " ">>

\* query = 'create table if not exists %s' % table_name, then
\* '%s(\n%s%s\n%s)' with the rows, a comma if there are keys, and the keys.
QueryText(table, rs, ks) ==
    Text_create_table \o table \o <<"(", "\n">>
        \o Join(rs, <<",", "\n">>)
        \o (IF Len(ks) > 0 THEN <<",">> ELSE <<>>)
        \o <<"\n">> \o Join(ks, <<",", "\n">>) \o <<")">>

(***************************************************************************)
(* The statement as sqlite reads it.                                       *)
(***************************************************************************)
\* Opening minus closing parentheses among the first k characters.
Depth(s, k) ==
    Cardinality({j \in 1..k : s[j] = "("}) - Cardinality({j \in 1..k : s[j] = ")"})

Balanced(s) ==
    /\ Depth(s, Len(s)) = 0
    /\ \A k \in 1..Len(s) : Depth(s, k) >= 0

\* The text between the first opening and the last closing parenthesis.
Body(s) ==
    LET first == CHOOSE a \in 1..Len(s) : s[a] = "(" /\ \A b \in 1..(a - 1) : s[b] # "("
        last == CHOOSE a \in 1..Len(s) : s[a] = ")" /\ \A b \in (a + 1)..Len(s) : s[b] # ")"
    IN  SubSeq(s, first + 1, last - 1)

RECURSIVE CutFrom(_, _, _)
CutFrom(s, cuts, a) ==
    IF a > Len(s) THEN <<>>
    ELSE LET b == CHOOSE c \in cuts : c > a /\ \A d \in cuts : d > a => c <= d
         IN  <<Strip(SubSeq(s, a + 1, b - 1))>> \o CutFrom(s, cuts, b)

\* The clauses of a table definition: its text cut at the commas that are
\* inside no parenthesis, each clause without the blanks around it.
Clauses(s) ==
    CutFrom(s, {k \in 1..Len(s) : s[k] = "," /\ Depth(s, k) = 0} \cup {Len(s) + 1}, 0)

Word_unique ==
    <<"u", "n", "i", "q", "u", "e">>
Word_check ==
    <<"c", "h", "e", "c", "k">>
Word_constraint ==
    <<"c", "o", "n", "s", "t", "r", "a", "i", "n", "t">>

\* The words that begin a table constraint.
ConstraintWords == {Word_primary, Word_foreign, Word_unique, Word_check, Word_constraint}

\* The first word of a clause, in lower case.
FirstWord(clause) == Lower(Head(Split(Head(Split(clause, "(")), " ")))

IsConstraint(clause) == FirstWord(clause) \in ConstraintWords

\* What sqlite makes of a create table statement: it accepts a list of
\* non-empty clauses with balanced parentheses, the column definitions
\* first and at least one of them, then the table constraints.
ParsedTable(qr) ==
    LET cl == Clauses(Body(qr))
        n == Len(cl)
    IN  [ok |-> /\ Balanced(Body(qr))
                /\ \A k \in 1..n : Len(cl[k]) > 0
                /\ ~IsConstraint(cl[1])
                /\ \A k \in 1..n, j \in 1..n :
                      (k < j /\ IsConstraint(cl[k])) => IsConstraint(cl[j]),
         cols |-> {FirstWord(cl[k]) : k \in {j \in 1..n : ~IsConstraint(cl[j])}}]

(***************************************************************************)
(* The tables and indices of a store.                                      *)
(***************************************************************************)
\* INDICES is a dict display: an entry written with a key that was written
\* before replaces the value of that key.
Put(dict, key, val) ==
    IF \E j \in 1..Len(dict) : dict[j][1] = key
    THEN [j \in 1..Len(dict) |-> IF dict[j][1] = key THEN <<key, val>> ELSE dict[j]]
    ELSE Append(dict, <<key, val>>)

RECURSIVE DictOf(_)
DictOf(pairs) ==
    IF Len(pairs) = 0 THEN <<>>
    ELSE Put(DictOf(SubSeq(pairs, 1, Len(pairs) - 1)),
             pairs[Len(pairs)][1], pairs[Len(pairs)][2])

INDICES == DictOf(IndicesWritten)

\* name = '%s_%s' % (index, key.replace(',', '_'))
IndexName(table, key) == table \o <<"_">> \o Replace(key, ",", "_")

\* A table of the store: its name and the names of its columns.  An index:
\* its name, its table and the columns it is on.
TableOf(name, cols) == [name |-> name, cols |-> cols]
IndexOf(table, key) == [name |-> IndexName(table, key), table |-> table, key |-> key]

\* The tables SCHEMA describes, each description read as sqlite reads a
\* table definition, and the indices of INDICES.
DeclaredTables ==
    {TableOf(SCHEMA[k][1], ParsedTable(<<"(">> \o SCHEMA[k][2] \o <<")">>).cols) :
        k \in 1..Len(SCHEMA)}
DeclaredIndices == {IndexOf(INDICES[k][1], INDICES[k][2]) : k \in 1..Len(INDICES)}

\* A file that was just created, and the store after the construction of
\* the first DB: its tables and indices, no rows.
NewImage == [config |-> <<>>, sites |-> <<>>, tables |-> {}, indices |-> {}]
EmptyImage ==
    [config |-> <<>>, sites |-> <<>>, tables |-> DeclaredTables, indices |-> DeclaredIndices]

\* The locals of create_table before the call and after it.
NoFrame == [rows |-> <<>>, keys |-> <<>>, i |-> 0, query |-> <<>>]

VARIABLES
    disk,       \* the committed content of database.db
    cache,      \* cache[p]: the uncommitted image of p's connection
    lock,       \* lock[p]: the file lock p's connection holds
    txn,        \* txn[p]: the connection is inside a transaction
    cursors,    \* cursors[p]: select cursors of p that still hold rows
    pc,         \* pc[p]: where p is in the call it is in
    call,       \* call[p]: the method of DB the caller of p invoked
    attempts,   \* attempts[p]: failed attempts of the commit() p is in
    lastErr,    \* lastErr[p]: the failure of p's last attempt to commit
    faults,     \* failures injected so far that are not lock contention
    arg,        \* arg[p]: the arguments of the call p is in
    ret,        \* the outcome of the call that returned last
    frame,      \* frame[p]: the locals of the create_table p is in
    boot        \* boot[p]: where p is in the construction of its DB

vars == <<disk, cache, lock, txn, cursors, pc, call, attempts, lastErr, faults, arg, ret,
          frame, boot>>

(***************************************************************************)
(* Helpers on sequences.                                                   *)
(***************************************************************************)
Min(a, b) == IF a < b THEN a ELSE b

(***************************************************************************)
(* The file lock of sqlite, as seen from one connection.                   *)
(***************************************************************************)
\* A SHARED lock is granted unless another connection holds PENDING or
\* EXCLUSIVE.
CanShared(p) == \A q \in Procs \ {p} : lock[q] \notin {"PENDING", "EXCLUSIVE"}

\* A RESERVED lock is granted unless another connection holds RESERVED,
\* PENDING or EXCLUSIVE.
CanReserved(p) == \A q \in Procs \ {p} : lock[q] \notin WriteLocks

\* An EXCLUSIVE lock is granted once no other connection holds any lock.
CanExclusive(p) == \A q \in Procs \ {p} : lock[q] = "NONE"

\* What p's connection reads: its own uncommitted image while it holds the
\* write lock, the committed file otherwise.
View(p) == IF lock[p] \in WriteLocks THEN cache[p] ELSE disk

\* The lock a connection keeps when a statement or a transaction ends: the
\* read lock stays while a cursor still holds rows or a transaction is open.
RestLock(p, inTxn) ==
    IF lock[p] \in WriteLocks THEN lock[p]
    ELSE IF inTxn \/ cursors[p] > 0 THEN "SHARED" ELSE "NONE"

Idle(p) == pc[p] = "idle" /\ boot[p].phase = "open"

\* The outcome of a call: who called what with which arguments, how the
\* call ended (out) and what it returned (val: a text, n: a number).
Outcome(p, op, args, out, val, n) ==
    [proc |-> p, op |-> op, args |-> args, out |-> out, val |-> val, n |-> n]

(***************************************************************************)
(* The rows of a table and the generic statements on them.  A table is the *)
(* sequence of its rows in rowid order, the order a scan returns them in;  *)
(* a row of sites is [id |-> rowid, v |-> <<host, available, message>>],   *)
(* a row of config is <<key, value>>.                                      *)
(*                                                                         *)
(* A predicate fragment is `column = ?` with one bound value, written      *)
(* [col |-> column position, val |-> value]; col = 0 is the empty where.   *)
(* A projection is a list of column positions, or the count of the rows.    *)
(***************************************************************************)
NoWhere == [col |-> 0, val |-> NoText]

Matches(row, w) ==
    \/ w.col = 0
    \/ /\ w.val # NULL
       /\ row.v[w.col] = Affinity(SitesTypes[w.col], w.val)

\* The rows of tbl the predicate w selects, in scan order.
MatchRows(tbl, w) ==
    LET Test(r) == Matches(r, w) IN SelectSeq(tbl, Test)

\* The rowid sqlite gives a new row: one more than the largest in the table.
NextRowId(tbl) ==
    IF tbl = <<>> THEN 1
    ELSE 1 + CHOOSE m \in {tbl[i].id : i \in 1..Len(tbl)} :
                 \A i \in 1..Len(tbl) : tbl[i].id <= m

\* A count as the cell of a result row.
CountCell(n) == <<ToString(n)>>

\* The rows `select what from sites where w` returns: one row of the
\* projected columns per matching row, or for the count of rows one row.
ResultRows(tbl, what, w) ==
    LET m == MatchRows(tbl, w) IN
    IF what.agg THEN << <<CountCell(Len(m))>> >>
    ELSE [i \in 1..Len(m) |->
            [j \in 1..Len(what.cols) |-> m[i].v[what.cols[j]]]]

\* A statement that reads gets the SHARED lock unless the connection holds a
\* lock already; the lock stays after the statement inside a transaction.
ReadOk(p) == lock[p] # "NONE" \/ CanShared(p)
AfterRead(p) == IF lock[p] = "NONE" /\ txn[p] THEN "SHARED" ELSE lock[p]

\* A statement that writes gets the RESERVED lock unless the connection
\* holds the write lock already.
WriteOk(p) == lock[p] \in WriteLocks \/ CanReserved(p)

Init ==
    /\ disk = EmptyImage
    /\ cache = [p \in Procs |-> EmptyImage]
    /\ lock = [p \in Procs |-> "NONE"]
    /\ txn = [p \in Procs |-> FALSE]
    /\ cursors = [p \in Procs |-> 0]
    /\ pc = [p \in Procs |-> "idle"]
    /\ call = [p \in Procs |-> "none"]
    /\ attempts = [p \in Procs |-> 0]
    /\ lastErr = [p \in Procs |-> "none"]
    /\ faults = 0
    /\ arg = [p \in Procs |-> <<>>]
    /\ ret = Outcome("p1", "__init__", <<>>, "ok", NoText, 0)
    /\ frame = [p \in Procs |-> NoFrame]
    /\ boot = [p \in Procs |-> [phase |-> "open", k |-> 1]]

(***************************************************************************)
(* DB.commit: the retry loop around the connection's commit.               *)
(***************************************************************************)
\* A call returns (or raises) to its caller.
Finish(p, out, val, n) ==
    /\ pc' = [pc EXCEPT ![p] = "idle"]
    /\ call' = [call EXCEPT ![p] = "none"]
    /\ arg' = [arg EXCEPT ![p] = <<>>]
    /\ attempts' = [attempts EXCEPT ![p] = 0]
    /\ lastErr' = [lastErr EXCEPT ![p] = "none"]
    /\ ret' = Outcome(p, call[p], arg[p], out, val, n)
    /\ UNCHANGED <<frame, boot>>

\* commit() is entered, by the caller or by a method that calls it.
EnterCommit(p) ==
    /\ pc' = [pc EXCEPT ![p] = "commit_try"]
    /\ attempts' = [attempts EXCEPT ![p] = 0]
    /\ lastErr' = [lastErr EXCEPT ![p] = "none"]

\* A commit() that gives up on a lock it cannot get instead of retrying.
ExceptTargetGiveUp(err) == IF err = "locked" THEN "raise" ELSE "commit_sleep"

\* `except:` catches every failure of the attempt, whatever its class, and
\* goes on to the sleep that precedes the next attempt.
ExceptTarget(err) == "commit_sleep"

\* The except clause: log, then sleep; a failure that is not caught leaves
\* commit() and the call it is part of.
Except(p, err) ==
    IF ExceptTarget(err) = "commit_sleep"
    THEN /\ pc' = [pc EXCEPT ![p] = "commit_sleep"]
         /\ lastErr' = [lastErr EXCEPT ![p] = err]
         /\ attempts' = [attempts EXCEPT ![p] = Min(attempts[p] + 1, MaxAttempts)]
         /\ UNCHANGED <<call, arg, ret, frame, boot>>
    ELSE Finish(p, err, NoText, 0)

\* self.conn.commit() with nothing to write: no transaction is open (a
\* no-op), or the transaction only read (its locks are dropped).
CommitNothing(p) ==
    /\ pc[p] = "commit_try"
    /\ ~txn[p] \/ lock[p] \notin WriteLocks
    /\ txn' = [txn EXCEPT ![p] = FALSE]
    /\ lock' = [lock EXCEPT ![p] = RestLock(p, FALSE)]
    /\ Finish(p, "ok", NoText, 0)
    /\ UNCHANGED <<disk, cache, cursors, faults>>

\* self.conn.commit() of a write transaction gets the EXCLUSIVE lock: every
\* other connection has dropped its locks.
CommitLock(p) ==
    /\ pc[p] = "commit_try"
    /\ txn[p] /\ lock[p] \in WriteLocks
    /\ CanExclusive(p)
    /\ lock' = [lock EXCEPT ![p] = "EXCLUSIVE"]
    /\ pc' = [pc EXCEPT ![p] = "commit_write"]
    /\ UNCHANGED <<disk, cache, txn, cursors, call, attempts, lastErr, faults, arg, ret,
                   frame, boot>>

\* self.conn.commit() writes the image to the file, drops the write lock and
\* returns; commit() returns.
CommitWrite(p) ==
    /\ pc[p] = "commit_write"
    /\ disk' = cache[p]
    /\ cache' = [cache EXCEPT ![p] = EmptyImage]
    /\ txn' = [txn EXCEPT ![p] = FALSE]
    /\ lock' = [lock EXCEPT ![p] = IF cursors[p] > 0 THEN "SHARED" ELSE "NONE"]
    /\ Finish(p, "ok", NoText, 0)
    /\ UNCHANGED <<cursors, faults>>

\* self.conn.commit() fails because another connection holds a lock (the
\* busy timeout of the connection ran out): "database is locked".  The
\* connection keeps the PENDING lock it got on the way.
CommitLocked(p) ==
    /\ pc[p] = "commit_try"
    /\ txn[p] /\ lock[p] \in WriteLocks
    /\ ~CanExclusive(p)
    /\ lock' = [lock EXCEPT ![p] = "PENDING"]
    /\ Except(p, "locked")
    /\ UNCHANGED <<disk, cache, txn, cursors, faults>>

\* self.conn.commit() fails for another reason than the lock (an I/O error,
\* a full disk) before anything is written.
CommitFault(p) ==
    /\ pc[p] = "commit_try"
    /\ txn[p] /\ lock[p] \in WriteLocks
    /\ faults < MaxFaults
    /\ faults' = faults + 1
    /\ Except(p, "other")
    /\ UNCHANGED <<disk, cache, lock, txn, cursors>>

\* sleep(0.1), then the loop tries again.
CommitSleep(p) ==
    /\ pc[p] = "commit_sleep"
    /\ pc' = [pc EXCEPT ![p] = "commit_try"]
    /\ UNCHANGED <<disk, cache, lock, txn, cursors, call, attempts, lastErr, faults, arg, ret,
                   frame, boot>>

\* The caller invokes commit().
Commit(p) ==
    /\ pc[p] = "idle"
    /\ boot[p].phase \in {"open", "commit"}
    /\ boot' = [boot EXCEPT ![p] = [phase |-> "open", k |-> 1]]
    /\ call' = [call EXCEPT ![p] = "commit"]
    /\ arg' = [arg EXCEPT ![p] = <<>>]
    /\ EnterCommit(p)
    /\ UNCHANGED <<disk, cache, lock, txn, cursors, faults, ret, frame>>

(***************************************************************************)
(* The generic statements: insert, update, delete, count, select,          *)
(* select_one.  Each is one statement on the connection; none commits.     *)
(***************************************************************************)
\* A call that is a single statement returns (or raises) at once.
Return(p, op, args, out, val, n) ==
    /\ ret' = Outcome(p, op, args, out, val, n)
    /\ UNCHANGED <<pc, call, arg, attempts, lastErr, faults, frame, boot>>

\* A connection in autocommit mode: the statement changes the file at once.
WriteStmtAutocommit(p, img) ==
    /\ disk' = img
    /\ UNCHANGED <<cache, lock, txn>>

\* cur.execute of a statement that writes: the sqlite3 module begins a
\* transaction, the statement takes the write lock and changes the
\* connection's image, not the file.
WriteStmt(p, img) ==
    /\ txn' = [txn EXCEPT ![p] = TRUE]
    /\ lock' = [lock EXCEPT ![p] = IF lock[p] \in WriteLocks THEN lock[p] ELSE "RESERVED"]
    /\ cache' = [cache EXCEPT ![p] = img]
    /\ UNCHANGED disk

\* cur.execute of a statement that writes while another connection holds
\* the write lock: the transaction is begun, the statement fails.
WriteRefused(p) ==
    /\ txn' = [txn EXCEPT ![p] = TRUE]
    /\ UNCHANGED <<disk, cache, lock>>

\* cur.execute of a statement that reads and whose cursor is closed at once.
ReadStmt(p) ==
    /\ lock' = [lock EXCEPT ![p] = AfterRead(p)]
    /\ UNCHANGED <<disk, cache, txn>>

HasKey(tbl, host) ==
    /\ host # NULL
    /\ \E i \in 1..Len(tbl) :
          tbl[i].v[SitesKeyColumn] = Affinity(SitesTypes[SitesKeyColumn], host)

Insert(p, vals) ==
    /\ Idle(p)
    /\ UNCHANGED cursors
    /\ LET tbl == View(p).sites IN
       IF Len(vals) # Len(SitesColumns)
       THEN /\ Return(p, "insert", <<vals>>, "error", NoText, 0)
            /\ UNCHANGED <<disk, cache, lock, txn>>
       ELSE IF ~WriteOk(p)
       THEN /\ WriteRefused(p)
            /\ Return(p, "insert", <<vals>>, "locked", NoText, 0)
       ELSE IF HasKey(tbl, vals[SitesKeyColumn])
       THEN /\ WriteStmt(p, View(p))
            /\ Return(p, "insert", <<vals>>, "integrity", NoText, 0)
       ELSE /\ Len(tbl) < MaxRows
            /\ WriteStmt(p, [View(p) EXCEPT !.sites =
                                Append(tbl, [id |-> NextRowId(tbl), v |-> StoredRow(vals)])])
            /\ Return(p, "insert", <<vals>>, "ok", NoText, NextRowId(tbl))

\* The table after `update sites set column = value where w`.
Updated(tbl, chg, w) ==
    [i \in 1..Len(tbl) |->
        IF Matches(tbl[i], w)
        THEN [tbl[i] EXCEPT !.v = [tbl[i].v EXCEPT ![chg.col] = Affinity(SitesTypes[chg.col], chg.val)]]
        ELSE tbl[i]]

Update(p, chg, w) ==
    /\ Idle(p)
    /\ UNCHANGED cursors
    /\ IF w.col = 0
       THEN /\ Return(p, "update", <<chg, w>>, "error", NoText, 0)
            /\ UNCHANGED <<disk, cache, lock, txn>>
       ELSE IF ~WriteOk(p)
       THEN /\ WriteRefused(p)
            /\ Return(p, "update", <<chg, w>>, "locked", NoText, 0)
       ELSE /\ WriteStmt(p, [View(p) EXCEPT !.sites = Updated(View(p).sites, chg, w)])
            /\ Return(p, "update", <<chg, w>>, "ok", NoText, 0)

\* The table after `delete from sites where w`.
Deleted(tbl, w) ==
    LET Keep(r) == ~Matches(r, w) IN SelectSeq(tbl, Keep)

Delete(p, w) ==
    /\ Idle(p)
    /\ UNCHANGED cursors
    /\ IF w.col = 0
       THEN /\ Return(p, "delete", <<w>>, "error", NoText, 0)
            /\ UNCHANGED <<disk, cache, lock, txn>>
       ELSE IF ~WriteOk(p)
       THEN /\ WriteRefused(p)
            /\ Return(p, "delete", <<w>>, "locked", NoText, 0)
       ELSE /\ WriteStmt(p, [View(p) EXCEPT !.sites = Deleted(View(p).sites, w)])
            /\ Return(p, "delete", <<w>>, "ok", NoText, 0)

\* select(): the statement is executed and its cursor handed to the caller;
\* a cursor that holds rows keeps the read lock until it is closed.
Select(p, what, w) ==
    /\ Idle(p)
    /\ cursors[p] < MaxCursors
    /\ UNCHANGED <<disk, cache, txn>>
    /\ IF ~ReadOk(p)
       THEN /\ Return(p, "select", <<what, w>>, "locked", NoText, 0)
            /\ UNCHANGED <<lock, cursors>>
       ELSE LET rows == ResultRows(View(p).sites, what, w) IN
            /\ Return(p, "select", <<what, w>>, "ok", NoText, Len(rows))
            /\ IF rows = <<>>
               THEN /\ lock' = [lock EXCEPT ![p] = AfterRead(p)]
                    /\ UNCHANGED cursors
               ELSE /\ lock' = [lock EXCEPT ![p] =
                                  IF lock[p] = "NONE" THEN "SHARED" ELSE lock[p]]
                    /\ cursors' = [cursors EXCEPT ![p] = cursors[p] + 1]

\* The caller reads a cursor of select() to its end, or drops it.
CloseCursor(p) ==
    /\ Idle(p)
    /\ cursors[p] > 0
    /\ cursors' = [cursors EXCEPT ![p] = cursors[p] - 1]
    /\ lock' = [lock EXCEPT ![p] =
                  IF lock[p] = "SHARED" /\ cursors[p] = 1 /\ ~txn[p]
                  THEN "NONE" ELSE lock[p]]
    /\ UNCHANGED <<disk, cache, txn, pc, call, attempts, lastErr, faults, arg, ret,
                   frame, boot>>

\* count(): select of the row count, fetchone, close.
Count(p, w) ==
    /\ Idle(p)
    /\ UNCHANGED cursors
    /\ IF ~ReadOk(p)
       THEN /\ Return(p, "count", <<w>>, "locked", NoText, 0)
            /\ UNCHANGED <<disk, cache, lock, txn>>
       ELSE /\ ReadStmt(p)
            /\ Return(p, "count", <<w>>, "ok", NoText, Len(MatchRows(View(p).sites, w)))

\* A select_one that answers an empty result with a null placeholder.
SelectOneResultOrNull(rows) ==
    IF rows = <<>> THEN [out |-> "value", val |-> NULL]
    ELSE [out |-> "value", val |-> rows[1][1]]

\* select_one on the rows the query returned: the first column of the first
\* row, or the exception 'no rows returned'.
SelectOneResult(rows) ==
    IF rows = <<>> THEN [out |-> "norows", val |-> NoText]
    ELSE [out |-> "value", val |-> rows[1][1]]

SelectOne(p, what, w) ==
    /\ Idle(p)
    /\ UNCHANGED cursors
    /\ IF ~ReadOk(p)
       THEN /\ Return(p, "select_one", <<what, w>>, "locked", NoText, 0)
            /\ UNCHANGED <<disk, cache, lock, txn>>
       ELSE LET r == SelectOneResult(ResultRows(View(p).sites, what, w)) IN
            /\ ReadStmt(p)
            /\ Return(p, "select_one", <<what, w>>, r.out, r.val, 0)

(***************************************************************************)
(* The config table: get_config and set_config.                            *)
(***************************************************************************)
RECURSIVE DqScan(_, _, _)
\* sqlite reads a token that opens with a double quote: s is what follows
\* the opening quote.  Two quotes in a row are one quote of the token, a
\* single quote ends it; the token is accepted (ok) when the quote that ends
\* it is the last character of s.  A token that is not ended, or one that is
\* followed by more characters (here never a valid rest of the statement),
\* makes the statement fail to compile.
DqScan(s, i, acc) ==
    IF i > Len(s) THEN [ok |-> FALSE, text |-> NoText]
    ELSE IF s[i] # QUOTE THEN DqScan(s, i + 1, Append(acc, s[i]))
    ELSE IF i < Len(s) /\ s[i + 1] = QUOTE THEN DqScan(s, i + 2, Append(acc, QUOTE))
    ELSE IF i = Len(s) THEN [ok |-> TRUE, text |-> acc]
    ELSE [ok |-> FALSE, text |-> NoText]

\* `where key = "%s"` % key: the key is pasted between double quotes, and
\* sqlite reads the token back.
QuotedToken(key) == DqScan(key \o <<QUOTE>>, 1, <<>>)

\* The value of a double-quoted token in a row of config: the column of that
\* name when there is one, the text itself otherwise.
Operand(tok, row) ==
    IF tok = ConfigColumns[1] THEN row[1]
    ELSE IF tok = ConfigColumns[2] THEN row[2]
    ELSE tok

\* get_config(key) on the config table tbl: the statement fails to compile
\* (error), finds no row (none: the call returns None), or the call returns
\* the value of the first row found.
GetConfigResult(tbl, key) ==
    LET t == QuotedToken(key)
        Test(r) == r[1] = Operand(t.text, r)
        m == SelectSeq(tbl, Test)
    IN  IF ~t.ok THEN [out |-> "error", val |-> NoText]
        ELSE IF m = <<>> THEN [out |-> "none", val |-> NoText]
        ELSE [out |-> "value", val |-> m[1][2]]

GetConfig(p, k) ==
    /\ Idle(p)
    /\ UNCHANGED cursors
    /\ LET r == GetConfigResult(View(p).config, k) IN
       IF r.out = "error"
       THEN /\ Return(p, "get_config", <<k>>, "error", NoText, 0)
            /\ UNCHANGED <<disk, cache, lock, txn>>
       ELSE IF ~ReadOk(p)
       THEN /\ Return(p, "get_config", <<k>>, "locked", NoText, 0)
            /\ UNCHANGED <<disk, cache, lock, txn>>
       ELSE /\ ReadStmt(p)
            /\ Return(p, "get_config", <<k>>, r.out, r.val, 0)

\* A plain insert into a table without the key constraint.
UpsertAppend(tbl, k, v) == Append(tbl, <<k, v>>)

\* `insert or replace into config (key, value) values (?, ?)`: the row of
\* the same key, if any, is deleted and the new row is added.
Upsert(tbl, k, v) ==
    LET Other(r) == r[1] # k IN Append(SelectSeq(tbl, Other), <<k, v>>)

\* set_config: the statement, then commit().
SetConfig(p, k, v) ==
    /\ Idle(p)
    /\ Len(Upsert(View(p).config, k, v)) <= MaxRows
    /\ UNCHANGED <<cursors, faults, frame, boot>>
    /\ IF ~WriteOk(p)
       THEN /\ WriteRefused(p)
            /\ ret' = Outcome(p, "set_config", <<k, v>>, "locked", NoText, 0)
            /\ UNCHANGED <<pc, call, arg, attempts, lastErr>>
       ELSE /\ WriteStmt(p, [View(p) EXCEPT !.config = Upsert(View(p).config, k, v)])
            /\ call' = [call EXCEPT ![p] = "set_config"]
            /\ arg' = [arg EXCEPT ![p] = <<k, v>>]
            /\ EnterCommit(p)
            /\ UNCHANGED ret

(***************************************************************************)
(* DB.__init__, create_table and create_index.                             *)
(*                                                                         *)
(* __init__ connects, calls create_table for every entry of SCHEMA and     *)
(* create_index for every entry of INDICES, then commit().  boot[p] is the *)
(* loop it is in and the entry that comes next; it moves on when the call  *)
(* for an entry begins, and an exception out of a call ends __init__.      *)
(***************************************************************************)
\* The next position of __init__ once the call at boot[p] has begun.
Advanced(p) ==
    LET at == boot[p] IN
    IF at.phase = "tables"
    THEN IF at.k < Len(SCHEMA) THEN [at EXCEPT !.k = at.k + 1]
         ELSE [phase |-> "indices", k |-> 1]
    ELSE IF at.phase = "indices"
    THEN IF at.k < Len(INDICES) THEN [at EXCEPT !.k = at.k + 1]
         ELSE [phase |-> "commit", k |-> 1]
    ELSE at

\* An exception leaves the method and, inside __init__, the constructor.
Raise(p, op, args, out) ==
    /\ ret' = Outcome(p, op, args, out, NoText, 0)
    /\ pc' = [pc EXCEPT ![p] = "idle"]
    /\ call' = [call EXCEPT ![p] = "none"]
    /\ arg' = [arg EXCEPT ![p] = <<>>]
    /\ frame' = [frame EXCEPT ![p] = NoFrame]
    /\ boot' = [boot EXCEPT ![p] =
                  IF @.phase = "open" THEN @ ELSE [phase |-> "failed", k |-> 1]]
    /\ UNCHANGED <<attempts, lastErr>>

\* sqlite3.connect(DB_FILE): the file is opened, or created empty.
Connect(p) ==
    /\ boot[p].phase = "closed"
    /\ boot' = [boot EXCEPT ![p] = [phase |-> "tables", k |-> 1]]
    /\ UNCHANGED <<disk, cache, lock, txn, cursors, pc, call, attempts, lastErr, faults,
                   arg, ret, frame>>

\* create_table is called: the for loop sorts the fragments of the
\* description into rows and keys.
CreateTable(p, table, schema) ==
    /\ pc[p] = "idle"
    /\ boot[p].phase \in {"open", "tables"}
    /\ boot' = [boot EXCEPT ![p] = Advanced(p)]
    /\ LET sorted == ForRows(Split(schema, ","), FALSE, <<>>, <<>>) IN
       frame' = [frame EXCEPT ![p] =
                   [rows |-> sorted.rows, keys |-> sorted.keys, i |-> 0, query |-> <<>>]]
    /\ pc' = [pc EXCEPT ![p] = "while"]
    /\ call' = [call EXCEPT ![p] = "create_table"]
    /\ arg' = [arg EXCEPT ![p] = <<table, schema>>]
    /\ UNCHANGED <<disk, cache, lock, txn, cursors, attempts, lastErr, faults, ret>>

\* One turn of the while loop leaves everything but the locals.
InWhile(p) ==
    /\ pc[p] = "while"
    /\ frame[p].i < Len(frame[p].keys)

\* keys[i] opens a parenthesis it does not close: the next fragment is
\* popped and joined to it.
WhileJoin(p) ==
    /\ InWhile(p)
    /\ Unclosed(frame[p].keys[frame[p].i + 1])
    /\ frame[p].i + 1 < Len(frame[p].keys)
    /\ frame' = [frame EXCEPT ![p].keys = Rejoined(frame[p].keys, frame[p].i)]
    /\ UNCHANGED <<disk, cache, lock, txn, cursors, pc, call, attempts, lastErr, faults,
                   arg, ret, boot>>

\* keys[i] is the last fragment and opens a parenthesis it does not close:
\* keys.pop(i+1) raises IndexError.
WhileIndexError(p) ==
    /\ InWhile(p)
    /\ Unclosed(frame[p].keys[frame[p].i + 1])
    /\ frame[p].i + 1 >= Len(frame[p].keys)
    /\ Raise(p, "create_table", arg[p], "IndexError")
    /\ UNCHANGED <<disk, cache, lock, txn, cursors, faults>>

\* i += 1
WhileNext(p) ==
    /\ InWhile(p)
    /\ ~Unclosed(frame[p].keys[frame[p].i + 1])
    /\ frame' = [frame EXCEPT ![p].i = frame[p].i + 1]
    /\ UNCHANGED <<disk, cache, lock, txn, cursors, pc, call, attempts, lastErr, faults,
                   arg, ret, boot>>

\* The loop is left and the statement is put together.
BuildQuery(p) ==
    /\ pc[p] = "while"
    /\ frame[p].i >= Len(frame[p].keys)
    /\ frame' = [frame EXCEPT ![p].query =
                   QueryText(arg[p][1], frame[p].rows, frame[p].keys)]
    /\ pc' = [pc EXCEPT ![p] = "execute"]
    /\ UNCHANGED <<disk, cache, lock, txn, cursors, call, attempts, lastErr, faults,
                   arg, ret, boot>>

\* A `create ... if not exists` of something the store holds already reads
\* the schema and changes nothing; then self.commit().
DdlNothing(p) ==
    /\ lock' = [lock EXCEPT ![p] = AfterRead(p)]
    /\ frame' = [frame EXCEPT ![p] = NoFrame]
    /\ EnterCommit(p)
    /\ UNCHANGED <<disk, cache, txn, call, arg, ret, boot>>

\* A `create` of something new: the sqlite3 module commits the open
\* transaction, if any, and the statement writes the file at once, for which
\* no other connection may hold a lock; then self.commit().
DdlWrite(p, img) ==
    /\ disk' = img
    /\ cache' = [cache EXCEPT ![p] = EmptyImage]
    /\ txn' = [txn EXCEPT ![p] = FALSE]
    /\ lock' = [lock EXCEPT ![p] = IF cursors[p] > 0 THEN "SHARED" ELSE "NONE"]
    /\ frame' = [frame EXCEPT ![p] = NoFrame]
    /\ EnterCommit(p)
    /\ UNCHANGED <<call, arg, ret, boot>>

\* The outcome of a create statement sqlite refuses: 'database is locked'
\* when it cannot read the schema, else the error of the statement.
DdlRefused(p, op, out) ==
    /\ Raise(p, op, arg[p], out)
    /\ UNCHANGED <<disk, cache, lock, txn>>

\* cur.execute(query) of create_table, then self.commit().
ExecuteCreateTable(p) ==
    /\ pc[p] = "execute"
    /\ UNCHANGED <<cursors, faults>>
    /\ LET parsed == ParsedTable(frame[p].query)
           table == arg[p][1]
       IN  IF ~ReadOk(p) THEN DdlRefused(p, "create_table", "locked")
           ELSE IF ~parsed.ok THEN DdlRefused(p, "create_table", "syntax")
           ELSE IF \E t \in View(p).tables : t.name = table THEN DdlNothing(p)
           ELSE IF ~CanExclusive(p) THEN DdlRefused(p, "create_table", "locked")
           ELSE DdlWrite(p, [View(p) EXCEPT !.tables = @ \cup {TableOf(table, parsed.cols)}])

\* What sqlite answers to `create index if not exists name on table(key)`
\* on the store img.
IndexAnswer(img, table, key) ==
    LET name == IndexName(table, key)
        cols == Split(key, ",")
    IN  IF \E k \in 1..Len(name) : name[k] \in Whitespace THEN "syntax"
        ELSE IF \E x \in img.indices : x.name = name THEN "exists"
        ELSE IF ~\E t \in img.tables : t.name = table THEN "no such table"
        ELSE IF \E k \in 1..Len(cols) :
                  \A t \in img.tables : t.name = table => Lower(cols[k]) \notin t.cols
             THEN "no such column"
        ELSE "create"

\* create_index: the name is derived, the statement is executed, then
\* self.commit().
CreateIndex(p, table, key) ==
    /\ pc[p] = "idle"
    /\ boot[p].phase \in {"open", "indices"}
    /\ UNCHANGED <<cursors, faults>>
    /\ LET answer == IndexAnswer(View(p), table, key)
           begun == /\ call' = [call EXCEPT ![p] = "create_index"]
                    /\ arg' = [arg EXCEPT ![p] = <<table, key>>]
                    /\ boot' = [boot EXCEPT ![p] = Advanced(p)]
                    /\ frame' = frame
                    /\ EnterCommit(p)
                    /\ UNCHANGED ret
           refused(out) ==
                    /\ Raise(p, "create_index", <<table, key>>, out)
                    /\ UNCHANGED <<disk, cache, lock, txn>>
       IN  IF ~ReadOk(p) THEN refused("locked")
           ELSE IF answer = "exists"
           THEN /\ lock' = [lock EXCEPT ![p] = AfterRead(p)]
                /\ UNCHANGED <<disk, cache, txn>>
                /\ begun
           ELSE IF answer # "create" THEN refused(answer)
           ELSE IF ~CanExclusive(p) THEN refused("locked")
           ELSE /\ disk' = [View(p) EXCEPT !.indices = @ \cup {IndexOf(table, key)}]
                /\ cache' = [cache EXCEPT ![p] = EmptyImage]
                /\ txn' = [txn EXCEPT ![p] = FALSE]
                /\ lock' = [lock EXCEPT ![p] = IF cursors[p] > 0 THEN "SHARED" ELSE "NONE"]
                /\ begun

\* The loops of __init__ over SCHEMA and INDICES.
InitCreateTable(p) ==
    /\ boot[p].phase = "tables"
    /\ CreateTable(p, SCHEMA[boot[p].k][1], SCHEMA[boot[p].k][2])

InitCreateIndex(p) ==
    /\ boot[p].phase = "indices"
    /\ CreateIndex(p, INDICES[boot[p].k][1], INDICES[boot[p].k][2])

(***************************************************************************)
(* The calls the model makes.  Every specification starts from an          *)
(* initialised, empty store with both connections open, and differs in the *)
(* callers it lets run and in the arguments they pass.                     *)
(***************************************************************************)
Keys == { <<"a">>, <<"k", "e", "y">>, <<"v", "a", "l", "u", "e">>,
          <<QUOTE>>, <<QUOTE, QUOTE>> }
Vals == { <<"a">>, <<"b">> }

InsertValues == { << <<"g">>, PyInt(<<"1">>), NULL >>,
                  << <<"h">>, PyInt(<<"0">>), <<"m">> >>,
                  << <<"g">>, PyInt(<<"1">>) >> }
Wheres == { NoWhere, [col |-> 1, val |-> <<"g">>], [col |-> 2, val |-> PyInt(<<"1">>)] }
Changes == { [col |-> 2, val |-> PyInt(<<"0">>)] }
Whats == { [agg |-> FALSE, cols |-> <<1>>],
           [agg |-> FALSE, cols |-> <<3, 1>>],
           [agg |-> TRUE, cols |-> <<>>] }

\* The steps of the retry loop of commit().
CommitStep(p) ==
    \/ CommitNothing(p)
    \/ CommitLock(p)
    \/ CommitWrite(p)
    \/ CommitLocked(p)
    \/ CommitSleep(p)

\* A process that only reads: it opens cursors with select() and closes them.
Reader(p) ==
    \/ Select(p, [agg |-> FALSE, cols |-> <<1>>], NoWhere)
    \/ CloseCursor(p)

\* One DB instance makes every call of the interface, while a second process
\* reads the store.
Next ==
    \/ \E vals \in InsertValues : Insert("p1", vals)
    \/ Update("p1", [col |-> 2, val |-> PyInt(<<"0">>)], [col |-> 1, val |-> <<"g">>])
    \/ Delete("p1", [col |-> 1, val |-> <<"g">>])
    \/ Count("p1", NoWhere)
    \/ Select("p1", [agg |-> FALSE, cols |-> <<1>>], NoWhere)
    \/ CloseCursor("p1")
    \/ SelectOne("p1", [agg |-> FALSE, cols |-> <<1>>], NoWhere)
    \/ GetConfig("p1", <<"a">>)
    \/ \E v \in Vals : SetConfig("p1", <<"a">>, v)
    \/ CreateTable("p1", Name_config, Schema_config)
    \/ BuildQuery("p1")
    \/ ExecuteCreateTable("p1")
    \/ CreateIndex("p1", Name_config, Key_key)
    \/ Commit("p1")
    \/ CommitStep("p1")
    \/ Reader("p2")

Spec == Init /\ [][Next]_vars

\* One process makes every statement on the sites table, with every
\* projection and predicate.
NextQuery ==
    \/ \E vals \in InsertValues : Insert("p1", vals)
    \/ \E chg \in Changes, w \in Wheres : Update("p1", chg, w)
    \/ \E w \in Wheres : Delete("p1", w)
    \/ \E w \in Wheres : Count("p1", w)
    \/ \E what \in Whats, w \in Wheres : Select("p1", what, w)
    \/ CloseCursor("p1")
    \/ \E what \in Whats, w \in Wheres : SelectOne("p1", what, w)
    \/ Commit("p1")
    \/ CommitNothing("p1")
    \/ CommitLock("p1")
    \/ CommitWrite("p1")

SpecQuery == Init /\ [][NextQuery]_vars

\* Two processes write, read and commit on the same store, and a commit may
\* fail for another reason than the lock.
NextLock ==
    \E p \in Procs :
        \/ Insert(p, << <<"g">>, PyInt(<<"1">>), NULL >>)
        \/ Reader(p)
        \/ Commit(p)
        \/ CommitStep(p)
        \/ CommitFault(p)

SpecLock == Init /\ [][NextLock]_vars

\* The scheduler lets every process run: a process inside commit() goes on
\* with the loop.  Nothing makes a caller start a call or close a cursor.
FairSpec == SpecLock /\ \A p \in Procs : WF_vars(CommitStep(p))

\* Two processes work on the config table.
NextConfig ==
    \/ \E k \in Keys : GetConfig("p1", k)
    \/ \E k \in Keys, v \in Vals : SetConfig("p1", k, v)
    \/ GetConfig("p2", <<"a">>)
    \/ \E k \in {<<"a">>, <<"k", "e", "y">>}, v \in Vals : SetConfig("p2", k, v)
    \/ \E p \in Procs : \/ CommitLock(p)
                        \/ CommitWrite(p)
                        \/ CommitLocked(p)
                        \/ CommitSleep(p)

SpecConfig == Init /\ [][NextConfig]_vars

\* The value tuples of the round trip through sites, one per host: two of
\* the declared types, one with an integer for each text column and a text
\* for the integer column, one with a text that is no number for the integer
\* column.
RoundTripValues == { << <<"g">>, PyInt(<<"1">>), NULL >>,
                     << <<"h">>, PyInt(<<"0">>), <<"m">> >>,
                     << PyInt(<<"5">>), <<"1">>, PyInt(<<"7">>) >>,
                     << <<"x">>, <<"y">>, NULL >> }

\* One process inserts rows, commits, and reads single columns of a row back
\* by its host.
NextRoundTrip ==
    \/ \E vals \in RoundTripValues : Insert("p1", vals)
    \/ \E vals \in RoundTripValues, c \in 1..Len(SitesColumns) :
          SelectOne("p1", [agg |-> FALSE, cols |-> <<c>>],
                    [col |-> SitesKeyColumn, val |-> vals[SitesKeyColumn]])
    \/ Commit("p1")
    \/ CommitNothing("p1")
    \/ CommitLock("p1")
    \/ CommitWrite("p1")

SpecRoundTrip == Init /\ [][NextRoundTrip]_vars

(***************************************************************************)
(* Descriptions and index columns that callers pass besides the declared   *)
(* ones.                                                                   *)
(***************************************************************************)
\* A table name that SCHEMA does not use.
Name_t ==
    <<"t">>

\* Two columns and a key, a space after each comma.
Schema_scenario ==
    <<"i", "d", " ", "i", "n", "t", "e", "g", "e", "r", ",", " ", "n", "a",
      "m", "e", " ", "t", "e", "x", "t", ",", " ", "p", "r", "i", "m", "a",
      "r", "y", " ", "k", "e", "y", "(", "i", "d", ")">>

\* The same description without the spaces after the commas.
Schema_tight ==
    <<"i", "d", " ", "i", "n", "t", "e", "g", "e", "r", ",", "n", "a", "m",
      "e", " ", "t", "e", "x", "t", ",", "p", "r", "i", "m", "a", "r", "y",
      " ", "k", "e", "y", "(", "i", "d", ")">>

\* A foreign key of two columns that references two columns.
Schema_composite ==
    <<"a", " ", "i", "n", "t", "e", "g", "e", "r", ",", "b", " ", "i", "n",
      "t", "e", "g", "e", "r", ",", "f", "o", "r", "e", "i", "g", "n", " ",
      "k", "e", "y", "(", "a", ",", "b", ")", " ", "r", "e", "f", "e", "r",
      "e", "n", "c", "e", "s", " ", "t", "(", "c", ",", "d", ")">>

\* A primary key of three columns.
Schema_three ==
    <<"a", " ", "i", "n", "t", "e", "g", "e", "r", ",", "b", " ", "i", "n",
      "t", "e", "g", "e", "r", ",", "a", "_", "b", " ", "i", "n", "t", "e",
      "g", "e", "r", ",", "p", "r", "i", "m", "a", "r", "y", " ", "k", "e",
      "y", "(", "a", ",", "b", ",", "a", "_", "b", ")">>

\* A comma after the last column: an empty clause.
Schema_trailing ==
    <<"a", " ", "i", "n", "t", "e", "g", "e", "r", ",">>

\* A doubled comma: an empty clause between two columns.
Schema_doubled ==
    <<"a", " ", "i", "n", "t", "e", "g", "e", "r", ",", ",", "b", " ", "t",
      "e", "x", "t">>

\* A key that opens a parenthesis no fragment closes.
Schema_unclosed ==
    <<"a", " ", "i", "n", "t", "e", "g", "e", "r", ",", "p", "r", "i", "m",
      "a", "r", "y", " ", "k", "e", "y", "(", "a">>

\* A key and no column, in upper case.
Schema_keyonly ==
    <<"P", "R", "I", "M", "A", "R", "Y", " ", "K", "E", "Y", "(", "a", ")">>

\* Two columns of an index.
Key_a_b ==
    <<"a", ",", "b">>

\* One column whose name holds an underscore.
Key_a_b_joined ==
    <<"a", "_", "b">>

SchemaTexts == {Schema_scenario, Schema_tight, Schema_composite, Schema_three,
                Schema_trailing, Schema_doubled, Schema_unclosed, Schema_keyonly,
                Schema_medias, Schema_sites, Schema_config}

IndexKeys == {Key_a_b, Key_a_b_joined, Key_key}

\* One process compiles descriptions into a table named t and creates
\* indices on it.
NextCompile ==
    \/ \E schema \in SchemaTexts : CreateTable("p1", Name_t, schema)
    \/ WhileJoin("p1")
    \/ WhileIndexError("p1")
    \/ WhileNext("p1")
    \/ BuildQuery("p1")
    \/ ExecuteCreateTable("p1")
    \/ \E key \in IndexKeys : CreateIndex("p1", Name_t, key)
    \/ CommitNothing("p1")

SpecCompile == Init /\ [][NextCompile]_vars

\* Before the first DB is constructed: database.db is a new file and no
\* process has connected.
InitNew ==
    /\ disk = NewImage
    /\ cache = [p \in Procs |-> NewImage]
    /\ lock = [p \in Procs |-> "NONE"]
    /\ txn = [p \in Procs |-> FALSE]
    /\ cursors = [p \in Procs |-> 0]
    /\ pc = [p \in Procs |-> "idle"]
    /\ call = [p \in Procs |-> "none"]
    /\ attempts = [p \in Procs |-> 0]
    /\ lastErr = [p \in Procs |-> "none"]
    /\ faults = 0
    /\ arg = [p \in Procs |-> <<>>]
    /\ ret = Outcome("p1", "none", <<>>, "ok", NoText, 0)
    /\ frame = [p \in Procs |-> NoFrame]
    /\ boot = [p \in Procs |-> [phase |-> "closed", k |-> 1]]

\* Two processes are launched: each constructs its DB, and once it has, it
\* inserts rows, reads them and commits.
NextOpen ==
    \E p \in Procs :
        \/ Connect(p)
        \/ InitCreateTable(p)
        \/ WhileJoin(p)
        \/ WhileNext(p)
        \/ BuildQuery(p)
        \/ ExecuteCreateTable(p)
        \/ InitCreateIndex(p)
        \/ Commit(p)
        \/ CommitStep(p)
        \/ Insert(p, << <<"g">>, PyInt(<<"1">>), NULL >>)
        \/ Reader(p)

SpecOpen == InitNew /\ [][NextOpen]_vars

(***************************************************************************)
(* Properties.                                                             *)
(***************************************************************************)
InCommit(p) == pc[p] \in {"commit_try", "commit_sleep", "commit_write"}

\* Both processes are inside a commit() their callers invoked.
BothInCommit == \A p \in Procs : InCommit(p) /\ call[p] = "commit"

\* The row of key k in a config table, looked up by equality of the key.
Stored(tbl, k) ==
    LET Test(r) == r[1] = k
        m == SelectSeq(tbl, Test)
    IN  IF m = <<>> THEN [out |-> "none", val |-> NoText]
        ELSE [out |-> "value", val |-> m[1][2]]

UniqueKeys(tbl) == \A i, j \in 1..Len(tbl) : tbl[i][1] = tbl[j][1] => i = j

\* C1: commit() retries only after a lock-contention failure: the sleep that
\* precedes another attempt is never reached after a failure of another
\* class, which is surfaced instead.
C1_RetryOnlyOnLockContention ==
    \A p \in Procs : pc[p] = "commit_sleep" => lastErr[p] = "locked"

\* C2 (as stated): no commit() raises because of contention, and whenever
\* both processes are inside commit(), each of the two calls eventually
\* returns.
C2_BothCommitsReturn ==
    /\ [](ret.op = "commit" => ret.out = "ok")
    /\ \A p \in Procs : BothInCommit ~> pc[p] = "idle"

\* C2 (amended): no commit() raises because of contention, and whenever both
\* processes are inside commit(), each of the two calls eventually returns,
\* provided the other process time and again holds no lock on the file.
C2_CommitsReturnOnceUnlocked ==
    /\ [](ret.op = "commit" => ret.out = "ok")
    /\ \A p \in Procs :
          []<>(\A q \in Procs \ {p} : lock[q] = "NONE")
             => (BothInCommit ~> pc[p] = "idle")

\* A commit() returned successfully after it had to retry on the lock, while
\* the other process is inside commit() as well.
C2_Witness ==
    \E p \in Procs : \E q \in Procs \ {p} :
        /\ pc[p] = "commit_write" /\ call[p] = "commit"
        /\ lastErr[p] = "locked" /\ attempts[p] > 0
        /\ InCommit(q) /\ call[q] = "commit"

\* C3: a commit() given the maximum attempt count MaxAttempts stops retrying
\* once that many attempts have failed: it does not go on to sleep for
\* another attempt.
C3_CommitStopsAtBound ==
    \A p \in Procs : pc[p] = "commit_sleep" => attempts[p] < MaxAttempts

C5_ConfigRoundTrip ==
    (ret.op = "get_config" /\ ret.out # "locked") =>
        LET s == Stored(View(ret.proc).config, ret.args[1])
        IN  ret.out = s.out /\ ret.val = s.val

\* C6: get_config of a key that was never set returns None and does not
\* raise.
C6_MissingKeyIsNone ==
    (/\ ret.op = "get_config" /\ ret.out # "locked"
     /\ \A p \in Procs : Stored(cache[p].config, ret.args[1]).out = "none"
     /\ Stored(disk.config, ret.args[1]).out = "none")
        => ret.out = "none"

\* C7: the config table holds at most one row per key, in the file and in
\* the uncommitted image of every connection.
C7_ConfigKeysUnique ==
    /\ UniqueKeys(disk.config)
    /\ \A p \in Procs : UniqueKeys(cache[p].config)

\* set_config is replacing the row of a key that is in the file with another
\* value: the image holds as many rows as the file.
C7_Witness ==
    \E p \in Procs :
        /\ call[p] = "set_config" /\ pc[p] = "commit_write"
        /\ Len(cache[p].config) = Len(disk.config)
        /\ \E i \in 1..Len(disk.config) :
              /\ disk.config[i][1] = arg[p][1]
              /\ disk.config[i][2] # arg[p][2]

\* C8: when set_config(k, v) has returned, a get_config(k) on the committed
\* file gives v.
C8_SetConfigIsReadBack ==
    (ret.op = "set_config" /\ ret.out = "ok") =>
        GetConfigResult(disk.config, ret.args[1]) = [out |-> "value", val |-> ret.args[2]]

\* C9: insert, update, delete and set_config never raise 'database is
\* locked'.
C9_NoLockErrorSurfaced ==
    ret.op \in {"insert", "update", "delete", "set_config"} => ret.out # "locked"

\* The first column of the first row among m that the projection names.
FirstCell(m, what) == IF what.agg THEN NoText ELSE m[1].v[what.cols[1]]

\* C10 (as stated): select_one on a predicate that matches no row raises 'no
\* rows returned'; it returns a value only when a row matches, and the value
\* is the first column of the first matching row.
C10_NoMatchRaises ==
    (ret.op = "select_one" /\ ret.out # "locked") =>
        LET m == MatchRows(View(ret.proc).sites, ret.args[2])
        IN  /\ m = <<>> => ret.out = "norows"
            /\ ret.out = "value" => m # <<>> /\ ret.val = FirstCell(m, ret.args[1])

\* C10 (amended): for a projection of columns, select_one raises 'no rows
\* returned' exactly when the predicate matches no row and otherwise returns
\* the first projected column of the first matching row; for the count of
\* rows it returns the count, also when no row matches.
C10_SelectOneByProjection ==
    (ret.op = "select_one" /\ ret.out # "locked") =>
        LET m == MatchRows(View(ret.proc).sites, ret.args[2])
            what == ret.args[1]
        IN  IF what.agg
            THEN ret.out = "value" /\ ret.val = CountCell(Len(m))
            ELSE /\ m = <<>> => ret.out = "norows"
                 /\ m # <<>> => ret.out = "value" /\ ret.val = FirstCell(m, what)

\* select_one raised 'no rows returned' on a predicate that matches no row
\* of a table that holds rows.
C10_Witness ==
    /\ ret.op = "select_one" /\ ret.out = "norows"
    /\ View(ret.proc).sites # <<>>

\* The value tuple among RoundTripValues that was inserted for a host.
Inserted(host) == CHOOSE vals \in RoundTripValues : vals[SitesKeyColumn] = host

\* Every value is None or of the declared type of its column.
WellTyped(vals) ==
    \A j \in 1..Len(vals) :
        vals[j] = NULL \/ (SitesTypes[j] = "integer" <=> IsInt(vals[j]))

\* select_one has returned for one column of the row of a host, and the
\* connection has nothing uncommitted: the row it read is a committed one.
ReadBack ==
    /\ ret.op = "select_one" /\ ret.out # "locked"
    /\ ~txn[ret.proc]
    /\ HasKey(disk.sites, ret.args[2].val)

Words(s) ==
    LET Blank(k) == s[k] \in Whitespace \cup {","}
        starts == {k \in 1..Len(s) : ~Blank(k) /\ (k = 1 \/ Blank(k - 1))}
        StartOf(n) == CHOOSE a \in starts : Cardinality({b \in starts : b <= a}) = n
        EndOf(a) == CHOOSE e \in a..Len(s) :
                        /\ \A x \in a..e : ~Blank(x)
                        /\ (e = Len(s) \/ Blank(e + 1))
    IN  [n \in 1..Cardinality(starts) |-> SubSeq(s, StartOf(n), EndOf(StartOf(n)))]

\* A clause led by `primary` or `foreign`.
LedByKey(clause) == FirstWord(clause) \in KeyWords

\* The number of elements of a sequence that satisfy a test.
KeyClauses(cl) == Cardinality({k \in 1..Len(cl) : LedByKey(cl[k])})

\* A description of column clauses followed by key clauses, none empty.
ColumnsThenKeys(schema) ==
    LET cl == Clauses(schema) IN
    /\ Balanced(schema)
    /\ \A k \in 1..Len(cl) : Len(cl[k]) > 0
    /\ \A k \in 1..Len(cl), j \in 1..Len(cl) :
          (k < j /\ LedByKey(cl[k])) => LedByKey(cl[j])

\* A description with a clause that has no name token, or with a
\* parenthesis that is not closed.
Malformed(schema) ==
    \/ ~Balanced(schema)
    \/ \E k \in 1..Len(Clauses(schema)) : Len(Clauses(schema)[k]) = 0

\* C13: when the while loop of create_table is left, every entry of the key
\* list is one whole key constraint: the list has as many entries as its
\* text has clauses between commas outside parentheses.
C13_KeysRejoinedWhole ==
    \A p \in Procs :
        (pc[p] = "execute" /\ Len(frame[p].keys) > 0) =>
            Len(frame[p].keys) = Len(Clauses(Join(frame[p].keys, <<",">>)))

\* C14: for a description of n column clauses followed by k key clauses,
\* with or without a space after each comma, create_table has n rows and k
\* keys when it puts the statement together.
C14_ColumnsAndKeysClassified ==
    \A p \in Procs :
        (pc[p] = "execute" /\ ColumnsThenKeys(arg[p][2])) =>
            LET cl == Clauses(arg[p][2]) IN
            /\ Len(frame[p].keys) = KeyClauses(cl)
            /\ Len(frame[p].rows) = Len(cl) - KeyClauses(cl)

\* C17: for a description with an empty clause or an unclosed parenthesis,
\* create_table never gets to execute a statement, and the call fails with
\* SchemaError.
C17_MalformedIsSchemaError ==
    /\ \A p \in Procs : pc[p] = "execute" => ~Malformed(arg[p][2])
    /\ (ret.op = "create_table" /\ Malformed(ret.args[2])) => ret.out = "SchemaError"

\* C18: when create_index(table, key) has returned, the store holds an index
\* of that table on those columns: no index is skipped because its derived
\* name was taken.
C18_DerivedNamesDistinct ==
    (ret.op = "create_index" /\ ret.out = "ok") =>
        \E x \in View(ret.proc).indices : x.table = ret.args[1] /\ x.key = ret.args[2]

\* The variant of the while loop of create_table.
Measure(fr) == 2 * Len(fr.keys) - fr.i

\* C19: the statement create_table puts together holds the words of the
\* description, each once and in the order of the description, as many rows
\* and key fragments as the description has fragments, the rows before the
\* keys; and every turn of the while loop lowers 2 * len(keys) - i, which
\* is never negative, so the loop ends.
C19_NothingLostAndLoopEnds ==
    /\ [](\A p \in Procs :
            /\ pc[p] = "execute" =>
                 /\ Words(Body(frame[p].query)) = Words(arg[p][2])
                 /\ frame[p].query =
                        QueryText(arg[p][1], frame[p].rows, frame[p].keys)
                 /\ Len(frame[p].rows)
                      + (IF Len(frame[p].keys) = 0 THEN 0
                         ELSE Len(Split(Join(frame[p].keys, <<",">>), ",")))
                    = Len(Split(arg[p][2], ","))
            /\ pc[p] = "while" => Measure(frame[p]) >= 0)
    /\ [][\A p \in Procs :
            (pc[p] = "while" /\ pc'[p] = "while" /\ frame'[p] # frame[p]) =>
                Measure(frame'[p]) < Measure(frame[p])]_vars

\* create_table has put together the statement of a description whose key
\* was split at a comma and rejoined.
C19_Witness ==
    /\ pc["p1"] = "execute"
    /\ Len(frame["p1"].rows) > 0
    /\ \E k \in 1..Len(frame["p1"].keys) : Has(frame["p1"].keys[k], ",")

(***************************************************************************)
(* Properties of the construction of DB.                                   *)
(***************************************************************************)
\* The store holds every table of SCHEMA and every index of INDICES.
Initialised(img) ==
    /\ DeclaredTables \subseteq img.tables
    /\ DeclaredIndices \subseteq img.indices

DdlMethods == {"create_table", "create_index"}

\* C12: on a store that holds the declared tables and indices, no call of
\* create_table or create_index raises, none changes the tables, the
\* indices or the rows of the file.
C12_SecondRunChangesNothing ==
    [][Initialised(disk) =>
          /\ disk'.tables = disk.tables
          /\ disk'.indices = disk.indices
          /\ (ret' # ret /\ ret'.op \in DdlMethods) => ret'.out = "ok"
          /\ \A p \in Procs :
                (call[p] \in DdlMethods /\ pc'[p] # pc[p]) => disk' = disk]_vars

\* C15: when a DB is constructed, the store holds as many indices as
\* INDICES is written with entries.
C15_EveryDeclaredIndexBuilt ==
    \A p \in Procs :
        (boot[p].phase = "open" /\ pc[p] = "idle") =>
            Cardinality(disk.indices) = Len(IndicesWritten)

\* C16: commit() is never entered from create_table or create_index: a
\* process enters it only by a call of commit().
C16_DdlDoesNotCommit ==
    [][\A p \in Procs :
          (pc'[p] = "commit_try" /\ pc[p] \notin {"commit_try", "commit_sleep"}) =>
              call'[p] = "commit"]_vars

====
